---- MODULE Spec2Model ----
(***************************************************************************)
(* The playground chat component (src/lib/components/playground/Chat.svelte)*)
(* as a state machine: the component's fields, the user's actions on the   *)
(* template (Run, Add, Cancel, the role button, the message box, the model *)
(* select), submitHandler / chatCompletionHandler cut at their awaits, and *)
(* the transport that answers the request and the reads of the stream.     *)
(*                                                                         *)
(* JavaScript runs one task to completion: a continuation that follows an  *)
(* `await tick()` or the return of an async call is a microtask and runs   *)
(* before any user event or network event.  The handler positions that are *)
(* left by a microtask are therefore not interleaved with user or network  *)
(* events (Quiescent); the positions that wait for the network are.        *)
(*                                                                         *)
(* Beside it, each with a specification of its own: the Strands AI settings *)
(* component, the customer picker, the log settings form, and the wrappers *)
(* of apis/models.                                                         *)
(***************************************************************************)
EXTENDS Integers, Sequences, FiniteSets, TLC

VARIABLES
    selectedModelId,   \* Chat.svelte:35
    loading,           \* Chat.svelte:36
    stopResponseFlag,  \* Chat.svelte:37
    system,            \* Chat.svelte:45
    role,              \* Chat.svelte:58
    message,           \* Chat.svelte:59
    messages,          \* Chat.svelte:61
    toasts,            \* the notifications shown by toast.error, in order
    sessions,          \* the calls of chatCompletionHandler, in call order
    rendersTextarea,   \* whether the message list renders the assistant textarea
    config,            \* Strands settings, line 11
    strandsLoading,    \* Strands settings, line 10 (loading)
    healthStatus,      \* Strands settings, line 35
    healthLoading,     \* Strands settings, line 37
    mountPc,           \* Strands settings: "constructed", or "mounted" once onMount ran
    strandsCalls,      \* Strands settings: the calls that fetch, in call order
    selectedRegion,    \* RegionCustomerDropdowns.svelte:12
    customers,         \* RegionCustomerDropdowns.svelte:13
    selectedCustomer,  \* RegionCustomerDropdowns.svelte:14
    loadingCustomers,  \* RegionCustomerDropdowns.svelte:15
    fetches,           \* the calls of fetchCustomers, in call order
    logsLoading,       \* Logs.svelte:11 (loading)
    logEnable,         \* Logs.svelte:13 (logConfig.enable)
    logsCalls,         \* the calls of updateHandler, in call order
    apiCall,           \* apis/models: the wrapper called and the way its fetch ends
    apiResult          \* apis/models: what the call resolved with or threw

chatVars == <<selectedModelId, loading, stopResponseFlag, system, role, message, messages,
              toasts, sessions, rendersTextarea>>

strandsVars == <<config, strandsLoading, healthStatus, healthLoading, mountPc, strandsCalls>>

pickerVars == <<selectedRegion, customers, selectedCustomer, loadingCustomers, fetches>>

logsVars == <<logsLoading, logEnable, logsCalls>>

apiVars == <<apiCall, apiResult>>

\* the state of the components other than the playground chat
elsewhere == <<strandsVars, pickerVars, logsVars, apiVars>>

vars == <<chatVars, elsewhere>>

----------------------------------------------------------------------------
(* Bounds of the model. *)

\* inputs of the environment over a whole run: the messages and the system text the
\* user types, the calls of chatCompletionHandler, and the lines the transport delivers
MaxInputs == 4

----------------------------------------------------------------------------
(* Text.  A string is a sequence of one-character strings. *)

NL == "\n"

Typed == <<"u">>

TypedSystem == <<"s">>

IsPrefix(s, t) == Len(s) <= Len(t) /\ SubSeq(t, 1, Len(s)) = s

\* The models in the $models store, and the ids the component can start with.
models == {"m1"}

InitialModelIds == {"", "m1", "m2"}

NoModelToast == "Please select a model."

AbortReason == "User: Stop Response"

----------------------------------------------------------------------------
(* The Strands AI settings component (src/unnamed/part_000): onMount,       *)
(* loadConfigFromAPI, checkHealth and setConfig.  A call that fetches is    *)
(* cut at its fetch: the component reads and writes nothing between the     *)
(* response and the end of `await res.json()`, so the two awaits are        *)
(* settled in one step.                                                     *)

DefaultConfig ==
    [ENABLE_STRANDS_AI |-> TRUE, AWS_PROFILE |-> "", AWS_REGION |-> "",
     MODEL_ID |-> "", CLICKHOUSE_MCP_BASE_URL |-> ""]

ServerConfig ==
    [ENABLE_STRANDS_AI |-> TRUE, AWS_PROFILE |-> "prod", AWS_REGION |-> "us-east-1",
     MODEL_ID |-> "claude", CLICKHOUSE_MCP_BASE_URL |-> "http://mcp"]

EditedConfig ==
    [ENABLE_STRANDS_AI |-> TRUE, AWS_PROFILE |-> "dev", AWS_REGION |-> "eu-west-1",
     MODEL_ID |-> "claude", CLICKHOUSE_MCP_BASE_URL |-> "http://mcp"]

Configs == {DefaultConfig, ServerConfig, EditedConfig}

\* the body of the health request: lines 126-131
HealthBody(cfg) ==
    [aws_profile |-> cfg.AWS_PROFILE, aws_region |-> cfg.AWS_REGION,
     model_id |-> cfg.MODEL_ID, clickhouse_mcp_base_url |-> cfg.CLICKHOUSE_MCP_BASE_URL]

\* healthStatus = null
HealthNull ==
    [null |-> TRUE, status |-> "", error |-> "", agent |-> "", clickhouse |-> ""]

\* the bodies the health endpoint answers an ok response with
HealthBodies ==
    {[null |-> FALSE, status |-> "healthy", error |-> "", agent |-> "ok",
      clickhouse |-> "ok"]}

\* lines 139-144 and 149-154
HealthError(text) ==
    [null |-> FALSE, status |-> "error", error |-> text, agent |-> "error",
     clickhouse |-> "unknown"]

\* How a fetch of the health endpoint and the reading of its body can end:
\*   ok        an ok response, its body parsed
\*   okbadjson an ok response whose body does not parse
\*   detail    a response that is not ok, its body an object with a detail
\*   nodetail  a response that is not ok, its body an object without a detail
\*   errbadjson a response that is not ok whose body does not parse
\*   errnull   a response that is not ok whose body is the JSON null
\*   neterr    the fetch rejects
HealthOutcomes ==
    [kind : {"ok"}, body : HealthBodies]
      \cup [kind : {"okbadjson", "detail", "nodetail", "errbadjson", "errnull", "neterr"},
            body : {HealthNull}]

Detail == "profile not found"

StatusLine == "HTTP 500: Internal Server Error"

StatusText == "Internal Server Error"

FetchFailed == "Failed to fetch"

NotJSON == "Unexpected token < in JSON at position 0"

NullDetail == "Cannot read properties of null (reading 'detail')"

\* lines 134-158: healthStatus and the notifications of a checkHealth call, by the
\* way its fetch ended
HealthSettledSilentOnFailure(o) ==
    CASE o.kind = "ok" ->
           [status |-> o.body,
            notes  |-> <<[type |-> "success", text |-> <<"Health check completed">>]>>]
      [] OTHER -> [status |-> HealthNull, notes |-> <<>>]

HealthSettled(o) ==
    CASE o.kind = "ok" ->
           [status |-> o.body,
            notes  |-> <<[type |-> "success", text |-> <<"Health check completed">>]>>]
      [] o.kind = "detail" ->
           [status |-> HealthError(Detail),
            notes  |-> <<[type |-> "error", text |-> <<"Health check failed: ", Detail>>]>>]
      [] o.kind = "nodetail" ->
           [status |-> HealthError(StatusLine),
            notes  |-> <<[type |-> "error",
                          text |-> <<"Health check failed: ", StatusText>>]>>]
      [] o.kind = "errbadjson" ->
           [status |-> HealthError("Unknown error"),
            notes  |-> <<[type |-> "error",
                          text |-> <<"Health check failed: ", "Unknown error">>]>>]
      [] o.kind = "okbadjson" ->
           [status |-> HealthError(NotJSON),
            notes  |-> <<[type |-> "error",
                          text |-> <<"Failed to check health: ", NotJSON>>]>>]
      [] o.kind = "errnull" ->
           [status |-> HealthError(NullDetail),
            notes  |-> <<[type |-> "error",
                          text |-> <<"Failed to check health: ", NullDetail>>]>>]
      [] OTHER ->
           [status |-> HealthError(FetchFailed),
            notes  |-> <<[type |-> "error",
                          text |-> <<"Failed to check health: ", FetchFailed>>]>>]

\* the load sends no body
NoBody == [aws_profile |-> "", aws_region |-> "", model_id |-> "",
           clickhouse_mcp_base_url |-> ""]

\* a call of loadConfigFromAPI or checkHealth
StrandsCall(fn, by, body) ==
    [fn    |-> fn,          \* "loadConfigFromAPI" or "checkHealth"
     by    |-> by,          \* "mount", or "user"
     pc    |-> "fetch",     \* "fetch": the fetch is pending; "done"
     body  |-> body,        \* the body of the request
     got   |-> "none",      \* how the fetch ended
     notes |-> <<>>]        \* the notifications of this call

\* line 192: onMount awaits the load before it calls checkHealth
MountAwaitsLoadNot == FALSE

MountAwaitsLoad == TRUE

\* the calls with a checkHealth call started by `by` added
WithHealth(calls, by, cfg) ==
    Append(calls, StrandsCall("checkHealth", by, HealthBody(cfg)))

\* onMount, up to the fetch of loadConfigFromAPI (lines 191-192, 39-48)
Mount ==
    /\ mountPc = "constructed"
    /\ mountPc' = "mounted"
    /\ strandsLoading' = TRUE
    /\ IF MountAwaitsLoad
       THEN /\ strandsCalls' = Append(strandsCalls,
                                      StrandsCall("loadConfigFromAPI", "mount", NoBody))
            /\ UNCHANGED <<healthStatus, healthLoading>>
       ELSE /\ strandsCalls' = WithHealth(Append(strandsCalls,
                                   StrandsCall("loadConfigFromAPI", "mount", NoBody)),
                                          "mount", config)
            /\ healthLoading' = TRUE
            /\ healthStatus' = HealthNull
    /\ UNCHANGED <<config, chatVars, pickerVars, logsVars, apiVars>>

\* how the fetch of the configuration can end
LoadOutcomes == {"ok", "okbadjson", "notok", "neterr"}

\* lines 50-59, and for the call of onMount lines 193-194 and 117-120: the load
\* ends; onMount goes on to checkHealth
LoadSettles ==
    \E i \in DOMAIN strandsCalls, o \in LoadOutcomes :
      LET c == strandsCalls[i]
          cfg == IF o = "ok" THEN ServerConfig ELSE config
          note == IF o = "ok" THEN <<>>
                  ELSE <<[type |-> "error",
                          text |-> <<"Failed to get Strands AI configuration">>]>>
          ended == [strandsCalls EXCEPT ![i].pc = "done", ![i].got = o,
                                        ![i].notes = note]
      IN /\ c.fn = "loadConfigFromAPI"
         /\ c.pc = "fetch"
         /\ config' = cfg
         /\ strandsLoading' = FALSE
         /\ IF c.by = "mount" /\ MountAwaitsLoad
            THEN /\ strandsCalls' = WithHealth(ended, "mount", cfg)
                 /\ healthLoading' = TRUE
                 /\ healthStatus' = HealthNull
            ELSE /\ strandsCalls' = ended
                 /\ UNCHANGED <<healthStatus, healthLoading>>
         /\ UNCHANGED <<mountPc, chatVars, pickerVars, logsVars, apiVars>>

\* setConfig (lines 21-25), and the inputs bound to the fields of config (lines
\* 237-268, disabled while loading)
SetConfig ==
    \E c \in Configs :
      /\ mountPc = "mounted"
      /\ c # config
      /\ config' = c
      /\ UNCHANGED <<strandsLoading, healthStatus, healthLoading, mountPc, strandsCalls,
                     chatVars, pickerVars, logsVars, apiVars>>

\* the health button (lines 209-213, disabled while healthLoading): checkHealth up to
\* its fetch (lines 117-132); the clicks of a run are bounded, with room left for the
\* two calls of onMount
CheckHealthClick ==
    /\ mountPc = "mounted"
    /\ ~healthLoading
    /\ Len(strandsCalls) + 2 < MaxInputs
    /\ healthLoading' = TRUE
    /\ healthStatus' = HealthNull
    /\ strandsCalls' = WithHealth(strandsCalls, "user", config)
    /\ UNCHANGED <<config, strandsLoading, mountPc, chatVars, pickerVars, logsVars, apiVars>>

\* lines 134-158: the health fetch ends
HealthSettles ==
    \E i \in DOMAIN strandsCalls, o \in HealthOutcomes :
      LET c == strandsCalls[i]
          r == HealthSettled(o)
      IN /\ c.fn = "checkHealth"
         /\ c.pc = "fetch"
         /\ healthStatus' = r.status
         /\ healthLoading' = FALSE
         /\ strandsCalls' = [strandsCalls EXCEPT ![i].pc = "done", ![i].got = o.kind,
                                                 ![i].notes = r.notes]
         /\ UNCHANGED <<config, strandsLoading, mountPc, chatVars, pickerVars, logsVars,
                        apiVars>>

StrandsConstructed ==
    /\ config = DefaultConfig
    /\ strandsLoading = FALSE
    /\ healthStatus = HealthNull
    /\ healthLoading = FALSE
    /\ mountPc = "constructed"
    /\ strandsCalls = <<>>

----------------------------------------------------------------------------
(* The customer picker (src/lib/components/chat/RegionCustomerDropdowns.svelte). *)
(* A call of fetchCustomers is cut at its fetch; the body is read in the same *)
(* step, as the component reads and writes nothing in between.               *)

\* two of the five regions of line 11
regions == {"eu", "us"}

\* the customers the endpoint answers with for a region
CustomersOf(region) == IF region = "eu" THEN <<"acme">> ELSE <<"globex">>

\* how the fetch of a region's customers can end: with a body that has customers,
\* with a body that has none (data.customers || []), or with a failure (a response
\* that is not ok, a body that does not parse, a rejected fetch)
FetchOutcomes == {"customers", "nocustomers", "failed"}

\* lines 39-49: the list the call leaves in customers
CustomersAfter(region, o) == IF o = "customers" THEN CustomersOf(region) ELSE <<>>

\* a call of fetchCustomers
CustomersFetch(region) ==
    [region   |-> region,
     pc       |-> "fetch",     \* "fetch": the fetch is pending; "done"
     got      |-> "none",      \* how the fetch ended
     returned |-> <<>>,        \* the list the call assigned to customers
     notes    |-> <<>>]        \* the notifications of this call

\* the region select (lines 109-118) and the reactive statement of lines 19-21:
\* fetchCustomers up to its fetch (lines 23-37)
SelectRegion ==
    \E r \in regions \cup {""} :
      /\ r # selectedRegion
      /\ selectedRegion' = r
      /\ IF r # ""
         THEN /\ Len(fetches) < MaxInputs
              /\ loadingCustomers' = TRUE
              /\ customers' = <<>>
              /\ selectedCustomer' = ""
              /\ fetches' = Append(fetches, CustomersFetch(r))
         ELSE UNCHANGED <<loadingCustomers, customers, selectedCustomer, fetches>>
      /\ UNCHANGED <<chatVars, strandsVars, logsVars, apiVars>>

\* lines 39-51: a fetch ends
FetchSettles ==
    \E i \in DOMAIN fetches, o \in FetchOutcomes :
      LET f == fetches[i]
          list == CustomersAfter(f.region, o)
      IN /\ f.pc = "fetch"
         /\ customers' = list
         /\ loadingCustomers' = FALSE
         /\ fetches' = [fetches EXCEPT
                ![i].pc = "done", ![i].got = o, ![i].returned = list,
                ![i].notes = IF o = "failed"
                             THEN <<"Failed to fetch customers for the selected region">>
                             ELSE <<>>]
         /\ UNCHANGED <<selectedRegion, selectedCustomer, chatVars, strandsVars, logsVars,
                        apiVars>>

\* the customer select (lines 127-147), disabled with no region or while loading
SelectCustomer ==
    \E k \in DOMAIN customers :
      /\ selectedRegion # ""
      /\ ~loadingCustomers
      /\ selectedCustomer # customers[k]
      /\ selectedCustomer' = customers[k]
      /\ UNCHANGED <<selectedRegion, customers, loadingCustomers, fetches, chatVars,
                     strandsVars, logsVars, apiVars>>

PickerConstructed ==
    /\ selectedRegion = ""
    /\ customers = <<>>
    /\ selectedCustomer = ""
    /\ loadingCustomers = FALSE
    /\ fetches = <<>>

----------------------------------------------------------------------------
(* The log settings form (src/lib/components/admin/Settings/Logs.svelte):   *)
(* updateHandler, cut at `await updateLogConfig` and at the two loads that  *)
(* refreshLogData awaits together.                                          *)

\* a call of updateHandler
UpdateCall ==
    [pc    |-> "update",    \* "update", "refresh" or "done"
     got   |-> "none",      \* what updateLogConfig did: "truthy", "falsy" or "throws"
     info  |-> "none",      \* loadLogInfo of the refresh: "none", "pending" or "settled"
     files |-> "none",      \* loadLogFiles of the refresh
     saved |-> 0,           \* calls of saveHandler
     notes |-> <<>>]        \* the notifications of this call

\* await Promise.all([loadLogInfo(), loadLogFiles()])
RefreshDoneOnFirst(info, files) == info # "pending" \/ files # "pending"

RefreshDone(info, files) == info # "pending" /\ files # "pending"

\* the switch bound to logConfig.enable (line 132); loadLogConfig of onMount
SetEnable ==
    /\ logEnable' = ~logEnable
    /\ UNCHANGED <<logsLoading, logsCalls, chatVars, strandsVars, pickerVars, apiVars>>

\* the form is submitted (line 121; the submit button is disabled while loading):
\* updateHandler up to `await updateLogConfig` (lines 80-83)
UpdateHandler ==
    /\ ~logsLoading
    /\ Len(logsCalls) < MaxInputs
    /\ logsLoading' = TRUE
    /\ logsCalls' = Append(logsCalls, UpdateCall)
    /\ UNCHANGED <<logEnable, chatVars, strandsVars, pickerVars, apiVars>>

\* what updateLogConfig can do
UpdateOutcomes == {"truthy", "falsy", "throws"}

\* lines 83-94, 74-78: updateLogConfig ends
UpdateLogConfigSettles ==
    \E i \in DOMAIN logsCalls, o \in UpdateOutcomes :
      LET c == logsCalls[i] IN
      /\ c.pc = "update"
      /\ IF o = "truthy" /\ logEnable
         THEN /\ logsCalls' = [logsCalls EXCEPT
                     ![i].got = o, ![i].pc = "refresh",
                     ![i].info = "pending", ![i].files = "pending",
                     ![i].notes = <<[type |-> "success",
                                     text |-> "Log settings saved successfully!"]>>]
              /\ UNCHANGED logsLoading
         ELSE /\ logsCalls' = [logsCalls EXCEPT
                     ![i].got = o, ![i].pc = "done",
                     ![i].saved = IF o = "truthy" THEN 1 ELSE 0,
                     ![i].notes =
                        CASE o = "truthy" ->
                               <<[type |-> "success",
                                  text |-> "Log settings saved successfully!"]>>
                          [] o = "throws" ->
                               <<[type |-> "error",
                                  text |-> "Failed to update log settings"]>>
                          [] OTHER -> <<>>]
              /\ logsLoading' = FALSE
      /\ UNCHANGED <<logEnable, chatVars, strandsVars, pickerVars, apiVars>>

\* the call with one load of its refresh settled; when the refresh is done, lines
\* 87 and 92-94: saveHandler, loading = false
AfterLoad(c) ==
    IF RefreshDone(c.info, c.files) THEN [c EXCEPT !.pc = "done", !.saved = 1] ELSE c

\* loadLogInfo of the refresh ends (lines 40-49; it catches its own error)
LoadLogInfoSettles ==
    \E i \in DOMAIN logsCalls :
      LET c == AfterLoad([logsCalls[i] EXCEPT !.info = "settled"]) IN
      /\ logsCalls[i].pc = "refresh"
      /\ logsCalls[i].info = "pending"
      /\ logsCalls' = [logsCalls EXCEPT ![i] = c]
      /\ logsLoading' = IF c.pc = "done" THEN FALSE ELSE logsLoading
      /\ UNCHANGED <<logEnable, chatVars, strandsVars, pickerVars, apiVars>>

\* loadLogFiles of the refresh ends (lines 51-60; it catches its own error)
LoadLogFilesSettles ==
    \E i \in DOMAIN logsCalls :
      LET c == AfterLoad([logsCalls[i] EXCEPT !.files = "settled"]) IN
      /\ logsCalls[i].pc = "refresh"
      /\ logsCalls[i].files = "pending"
      /\ logsCalls' = [logsCalls EXCEPT ![i] = c]
      /\ logsLoading' = IF c.pc = "done" THEN FALSE ELSE logsLoading
      /\ UNCHANGED <<logEnable, chatVars, strandsVars, pickerVars, apiVars>>

LogsConstructed ==
    /\ logsLoading = FALSE
    /\ logEnable = FALSE
    /\ logsCalls = <<>>

----------------------------------------------------------------------------
(* The wrappers of src/lib/apis/models/index.ts, as a function of the way   *)
(* the fetch and the reading of the body end.                               *)

Wrappers ==
    {"getModelItems", "getModelTags", "importModels", "getBaseModels", "createNewModel",
     "getModelById", "toggleModelById", "updateModelById", "deleteModelById",
     "deleteAllModels"}

\* the catch assigns err.detail (lines 193, 355) and not err
CatchKeepsDetail(w) == w \in {"createNewModel", "deleteModelById"}

\* A JavaScript value as far as the wrappers look at it: whether it is null, whether
\* it is truthy, and its detail (a value again, nested once; "undefined" when the
\* value has none).
Undefined == [null |-> FALSE, truthy |-> FALSE, is |-> "undefined"]

JsNull == [null |-> TRUE, truthy |-> FALSE, is |-> "null"]

DetailText == [null |-> FALSE, truthy |-> TRUE, is |-> "Model already exists"]

ModelBody == [null |-> FALSE, truthy |-> TRUE, is |-> "{id: 'm1'}", detail |-> Undefined]

ErrorWithDetail ==
    [null |-> FALSE, truthy |-> TRUE, is |-> "{detail: ...}", detail |-> DetailText]

ErrorWithoutDetail ==
    [null |-> FALSE, truthy |-> TRUE, is |-> "{message: ...}", detail |-> Undefined]

ErrorNull == [null |-> TRUE, truthy |-> FALSE, is |-> "null", detail |-> Undefined]

ErrorEmptyString == [null |-> FALSE, truthy |-> FALSE, is |-> "''", detail |-> Undefined]

SyntaxError == [null |-> FALSE, truthy |-> TRUE, is |-> "SyntaxError", detail |-> Undefined]

NetworkError == [null |-> FALSE, truthy |-> TRUE, is |-> "TypeError: Failed to fetch",
                 detail |-> Undefined]

DetailOfNull ==
    [null |-> FALSE, truthy |-> TRUE, is |-> "TypeError: reading 'detail' of null"]

\* How the fetch and the reading of the body can end: an ok response with its body
\* parsed or not parsing; a response that is not ok, with the value its body parses
\* to, or not parsing; a rejected fetch.
ApiOutcomes ==
    {[ok |-> TRUE,  fetched |-> TRUE,  parses |-> TRUE,  value |-> ModelBody],
     [ok |-> TRUE,  fetched |-> TRUE,  parses |-> FALSE, value |-> SyntaxError],
     [ok |-> FALSE, fetched |-> TRUE,  parses |-> TRUE,  value |-> ErrorWithDetail],
     [ok |-> FALSE, fetched |-> TRUE,  parses |-> TRUE,  value |-> ErrorWithoutDetail],
     [ok |-> FALSE, fetched |-> TRUE,  parses |-> TRUE,  value |-> ErrorNull],
     [ok |-> FALSE, fetched |-> TRUE,  parses |-> TRUE,  value |-> ErrorEmptyString],
     [ok |-> FALSE, fetched |-> TRUE,  parses |-> FALSE, value |-> SyntaxError],
     [ok |-> FALSE, fetched |-> FALSE, parses |-> FALSE, value |-> NetworkError]}

\* the promise chain of a wrapper and the lines after it (for createNewModel: lines
\* 174-203): what the call resolves with, or what it throws
Wrapper(w, o) ==
    IF o.ok /\ o.parses
    THEN [how |-> "resolves", with |-> o.value.is]
    ELSE LET err == o.value IN
         IF CatchKeepsDetail(w)
         THEN IF err.null
              THEN [how |-> "throws", with |-> DetailOfNull.is]
              ELSE IF err.detail.truthy
                   THEN [how |-> "throws", with |-> err.detail.is]
                   ELSE [how |-> "resolves", with |-> JsNull.is]
         ELSE IF err.truthy
              THEN [how |-> "throws", with |-> err.is]
              ELSE [how |-> "resolves", with |-> JsNull.is]

Pending == [how |-> "pending", with |-> ""]

\* the call ends
ApiSettles ==
    /\ apiResult = Pending
    /\ apiResult' = Wrapper(apiCall.wrapper, apiCall.outcome)
    /\ UNCHANGED <<apiCall, chatVars, strandsVars, pickerVars, logsVars>>

\* no call of a wrapper is under way
ApiIdle ==
    /\ apiCall = [wrapper |-> "none", outcome |-> "none"]
    /\ apiResult = Pending

\* the other components as constructed
ElsewhereConstructed ==
    /\ StrandsConstructed
    /\ PickerConstructed
    /\ LogsConstructed
    /\ ApiIdle

----------------------------------------------------------------------------
(* The lines of the stream.  A line is the text `prefix + payload`. *)

DataPrefix == "data: "

JsonA == "{\"choices\":[{\"delta\":{\"content\":\"a\"}}]}"

JsonNL == "{\"choices\":[{\"delta\":{\"content\":\"\\n\"}}]}"

JsonNoContent == "{\"choices\":[{\"delta\":{}}]}"

Garbage == "{oops"

BlankLine == [prefix |-> "", payload |-> ""]

DoneLine == [prefix |-> DataPrefix, payload |-> "[DONE]"]

GarbageLine == [prefix |-> DataPrefix, payload |-> Garbage]

FragALine == [prefix |-> DataPrefix, payload |-> JsonA]

FragNLLine == [prefix |-> DataPrefix, payload |-> JsonNL]

NoContentLine == [prefix |-> DataPrefix, payload |-> JsonNoContent]

Lines == {BlankLine, DoneLine, GarbageLine, FragALine, FragNLLine, NoContentLine}

\* a chunk is the value of one read: its lines, in order (value.split('\n'))
ChunksOfLen(n) == [1..n -> Lines]

\* line !== ''
LineIsEmpty(line) == line.prefix = "" /\ line.payload = ""

\* line === 'data: [DONE]'
LineIsDoneNever(line) == FALSE

LineIsDone(line) == line.prefix = DataPrefix /\ line.payload = "[DONE]"

\* line.replace(/^data: /, '')
StripDataPrefix(line) == line.payload

\* JSON.parse on the texts of the model: the parsed value, or a SyntaxError
JSONParse(text) ==
    CASE text = JsonA ->
           [ok |-> TRUE,
            val |-> [choices |-> <<[delta |-> [defined |-> TRUE, content |-> <<"a">>]]>>]]
      [] text = JsonNL ->
           [ok |-> TRUE,
            val |-> [choices |-> <<[delta |-> [defined |-> TRUE, content |-> <<NL>>]]>>]]
      [] text = JsonNoContent ->
           [ok |-> TRUE,
            val |-> [choices |-> <<[delta |-> [defined |-> FALSE, content |-> <<>>]]>>]]
      [] OTHER -> [ok |-> FALSE]

\* data.choices[0].delta.content
DeltaContent(data) == data.choices[1].delta

\* responseMessage.content == '' && data.choices[0].delta.content == '\n'
SkipLeadingNewlineAlways(content, c) == c.defined /\ c.content = <<NL>>

SkipLeadingNewlineNever(content, c) == FALSE

SkipLeadingNewline(content, c) == content = <<>> /\ c.defined /\ c.content = <<NL>>

\* responseMessage.content += data.choices[0].delta.content ?? ''
AppendFragmentInFront(content, c) == (IF c.defined THEN c.content ELSE <<>>) \o content

AppendFragment(content, c) == content \o (IF c.defined THEN c.content ELSE <<>>)

\* One pass of the body of `for (const line of lines)`: the content afterwards,
\* whether the pass threw (to the catch that encloses the whole for loop), and whether
\* it ended in the `await tick()` of line 212.
StepLineSentinelEnds(content, line, textarea) ==
    IF LineIsEmpty(line) THEN [content |-> content, threw |-> FALSE, ticked |-> FALSE]
    ELSE IF LineIsDone(line) THEN [content |-> content, threw |-> TRUE, ticked |-> FALSE]
    ELSE LET p == JSONParse(StripDataPrefix(line)) IN
         IF ~p.ok THEN [content |-> content, threw |-> TRUE, ticked |-> FALSE]
         ELSE LET c == DeltaContent(p.val) IN
              IF SkipLeadingNewline(content, c)
              THEN [content |-> content, threw |-> FALSE, ticked |-> FALSE]
              ELSE IF textarea # "element"
                   THEN [content |-> content, threw |-> TRUE, ticked |-> FALSE]
                   ELSE [content |-> AppendFragment(content, c), threw |-> FALSE,
                         ticked |-> TRUE]

StepLineAppendFirst(content, line, textarea) ==
    IF LineIsEmpty(line) THEN [content |-> content, threw |-> FALSE, ticked |-> FALSE]
    ELSE IF LineIsDone(line) THEN [content |-> content, threw |-> FALSE, ticked |-> FALSE]
    ELSE LET p == JSONParse(StripDataPrefix(line)) IN
         IF ~p.ok THEN [content |-> content, threw |-> TRUE, ticked |-> FALSE]
         ELSE LET c == DeltaContent(p.val) IN
              IF SkipLeadingNewline(content, c)
              THEN [content |-> content, threw |-> FALSE, ticked |-> FALSE]
              ELSE IF textarea # "element"
                   THEN [content |-> AppendFragment(content, c), threw |-> TRUE,
                         ticked |-> FALSE]
                   ELSE [content |-> AppendFragment(content, c), threw |-> FALSE,
                         ticked |-> TRUE]

StepLine(content, line, textarea) ==
    IF LineIsEmpty(line) THEN [content |-> content, threw |-> FALSE, ticked |-> FALSE]
    ELSE IF LineIsDone(line) THEN [content |-> content, threw |-> FALSE, ticked |-> FALSE]
    ELSE LET p == JSONParse(StripDataPrefix(line)) IN
         IF ~p.ok THEN [content |-> content, threw |-> TRUE, ticked |-> FALSE]
         ELSE LET c == DeltaContent(p.val) IN
              IF SkipLeadingNewline(content, c)
              THEN [content |-> content, threw |-> FALSE, ticked |-> FALSE]
              ELSE IF textarea # "element"
                   THEN [content |-> content, threw |-> TRUE, ticked |-> FALSE]
                   ELSE [content |-> AppendFragment(content, c), threw |-> FALSE,
                         ticked |-> TRUE]

----------------------------------------------------------------------------
(* The sessions: one record per call of chatCompletionHandler. *)

NewSession(caller) ==
    [caller   |-> caller,      \* "submit": called by submitHandler; "direct": called directly
     pc       |-> "entry",     \* the handler's position
     requests |-> <<>>,        \* the bodies passed to chatCompletion
     res      |-> "none",      \* the response: "ok", "notok" or "null"
     rIdx     |-> 0,           \* the place of responseMessage in messages
     fresh    |-> FALSE,       \* responseMessage was appended by this call
     textarea |-> "none",      \* textareaElement: "element" or "null"
     reads    |-> 0,           \* calls of reader.read()
     chunks   |-> <<>>,        \* the values the reads returned
     value    |-> <<>>,        \* lines of the chunk in hand
     li       |-> 0,           \* the line the for loop is at
     ticked   |-> FALSE,       \* the for loop waits in the `await tick()` of line 212
     aborts   |-> <<>>,        \* the reasons passed to controller.abort
     logged   |-> 0]           \* the errors the catch passed to console.log

\* the handler is suspended at a network await, or has finished
Suspended(s) == s.pc \in {"request", "read", "done", "threw"}

Quiescent == \A i \in DOMAIN sessions : Suspended(sessions[i])

Ended(s) == s.pc \in {"done", "threw"}

RECURSIVE SumLen(_)
SumLen(seq) == IF seq = <<>> THEN 0 ELSE Len(Head(seq)) + SumLen(Tail(seq))

RECURSIVE Delivered(_)
\* the lines delivered so far, over all sessions
Delivered(ss) == IF ss = <<>> THEN 0 ELSE SumLen(Head(ss).chunks) + Delivered(Tail(ss))

\* the messages typed so far: those added to the conversation, and the one in the box
TypedCount ==
    Cardinality({i \in DOMAIN messages :
                    messages[i].content # <<>> /\ Head(messages[i].content) = Head(Typed)})
    + (IF message # <<>> THEN 1 ELSE 0)

\* the inputs of the environment so far
Inputs ==
    TypedCount + (IF system # <<>> THEN 1 ELSE 0) + Len(sessions) + Delivered(sessions)

----------------------------------------------------------------------------
(* The template. *)

\* {#if !loading} ... Add, Run
RunOfferedAlways == TRUE

RunOffered == ~loading

\* {:else} ... Cancel
CancelOfferedAlways == TRUE

CancelOffered == loading

\* addHandler: the messages afterwards
AddHandler(msgs, r, m) ==
    IF m # <<>> THEN Append(msgs, [role |-> r, content |-> m]) ELSE msgs

\* the user sets the role button (lines 423-443) and types a message (lines 401-416)
TypeMessage ==
    /\ Quiescent
    /\ message = <<>>
    /\ Inputs < MaxInputs
    /\ message' = Typed
    /\ role' \in {"user", "assistant"}
    /\ UNCHANGED <<system, selectedModelId, loading, stopResponseFlag, messages, toasts,
                   sessions, rendersTextarea, elsewhere>>

\* the user types the system instructions (lines 333-343)
TypeSystem ==
    /\ Quiescent
    /\ system = <<>>
    /\ Inputs < MaxInputs
    /\ system' = TypedSystem
    /\ UNCHANGED <<selectedModelId, loading, stopResponseFlag, role, message, messages,
                   toasts, sessions, rendersTextarea, elsewhere>>

\* the Add button
AddClick ==
    /\ Quiescent
    /\ RunOffered
    /\ message # <<>>
    /\ messages' = AddHandler(messages, role, message)
    /\ message' = <<>>
    /\ role' = IF role = "user" THEN "assistant" ELSE "user"
    /\ UNCHANGED <<system, selectedModelId, loading, stopResponseFlag, toasts, sessions,
                   rendersTextarea, elsewhere>>

\* the model select
SelectModel ==
    /\ Quiescent
    /\ \E m \in models :
         /\ selectedModelId # m
         /\ selectedModelId' = m
    /\ UNCHANGED <<system, loading, stopResponseFlag, role, message, messages, toasts, sessions,
                   rendersTextarea, elsewhere>>

\* the Cancel button: stopResponse
StopResponse ==
    /\ Quiescent
    /\ CancelOffered
    /\ stopResponseFlag' = TRUE
    /\ UNCHANGED <<system, selectedModelId, loading, role, message, messages, toasts, sessions,
                   rendersTextarea, elsewhere>>

\* the Run button: submitHandler up to its call of chatCompletionHandler
Submit ==
    /\ Quiescent
    /\ RunOffered
    /\ Inputs < MaxInputs
    /\ IF selectedModelId # ""
       THEN /\ messages' = AddHandler(messages, role, message)
            /\ message' = <<>>
            /\ loading' = TRUE
            /\ sessions' = Append(sessions, NewSession("submit"))
            /\ UNCHANGED <<system, selectedModelId, stopResponseFlag, role, toasts, rendersTextarea, elsewhere>>
       ELSE UNCHANGED vars

----------------------------------------------------------------------------
(* chatCompletionHandler. *)

\* selectedModelId === ''
UnselectedNever(id) == FALSE

Unselected(id) == id = ""

\* $models.find((model) => model.id === selectedModelId)
Resolved(id) == id \in models

\* [system ? { role: 'system', content: system } : undefined, ...messages]
\*     .filter((message) => message)
RequestMessagesSystemLast(sys, msgs) ==
    msgs \o (IF sys # <<>> THEN <<[role |-> "system", content |-> sys]>> ELSE <<>>)

RequestMessages(sys, msgs) ==
    (IF sys # <<>> THEN <<[role |-> "system", content |-> sys]>> ELSE <<>>) \o msgs

\* the body passed to chatCompletion
RequestBody(id, sys, msgs) ==
    [model |-> id, stream |-> TRUE, messages |-> RequestMessages(sys, msgs)]

\* lines 128-155: the two precondition checks, then the request
HandlerEntry ==
    \E i \in DOMAIN sessions :
      /\ sessions[i].pc = "entry"
      /\ IF Unselected(selectedModelId)
         THEN /\ toasts' = Append(toasts, NoModelToast)
              /\ sessions' = [sessions EXCEPT ![i].pc = "returned"]
              /\ UNCHANGED selectedModelId
         ELSE IF ~Resolved(selectedModelId)
         THEN /\ selectedModelId' = ""
              /\ sessions' = [sessions EXCEPT ![i].pc = "returned"]
              /\ UNCHANGED toasts
         ELSE /\ sessions' = [sessions EXCEPT
                     ![i].pc = "request",
                     ![i].requests = Append(@, RequestBody(selectedModelId, system, messages))]
              /\ UNCHANGED <<selectedModelId, toasts>>
      /\ UNCHANGED <<system, loading, stopResponseFlag, role, message, messages, rendersTextarea, elsewhere>>

\* what chatCompletion can resolve with as res
ResOutcomes == {"ok", "notok", "null"}

\* messages.at(-1)?.role === 'assistant'
LastIsAssistantNever(msgs) == FALSE

LastIsAssistant(msgs) == msgs # <<>> /\ msgs[Len(msgs)].role = "assistant"

\* lines 139, 157-169: the response arrives, the turn to mutate is picked
Response ==
    \E i \in DOMAIN sessions, r \in ResOutcomes :
      /\ Quiescent
      /\ sessions[i].pc = "request"
      /\ IF LastIsAssistant(messages)
         THEN /\ UNCHANGED messages
              /\ sessions' = [sessions EXCEPT
                     ![i].pc = "tick", ![i].res = r,
                     ![i].rIdx = Len(messages), ![i].fresh = FALSE]
         ELSE /\ messages' = Append(messages, [role |-> "assistant", content |-> <<>>])
              /\ sessions' = [sessions EXCEPT
                     ![i].pc = "tick", ![i].res = r,
                     ![i].rIdx = Len(messages) + 1, ![i].fresh = TRUE]
      /\ UNCHANGED <<system, selectedModelId, loading, stopResponseFlag, role, message, toasts,
                     rendersTextarea, elsewhere>>

\* res && res.ok
ResponseOkIfAny(res) == res # "null"

ResponseOk(res) == res = "ok"

\* lines 170-179: the textarea lookup; the reader and the first read when res is ok
AfterTick ==
    \E i \in DOMAIN sessions :
      /\ sessions[i].pc = "tick"
      /\ sessions' = [sessions EXCEPT
             ![i].textarea = IF rendersTextarea THEN "element" ELSE "null",
             ![i].pc = IF ResponseOk(sessions[i].res) THEN "read" ELSE "returned",
             ![i].reads = IF ResponseOk(sessions[i].res) THEN 1 ELSE 0]
      /\ UNCHANGED <<system, selectedModelId, loading, stopResponseFlag, role, message, messages,
                     toasts, rendersTextarea, elsewhere>>

\* done || stopResponseFlag
ExitLoopOnDoneOnly(done, stop) == done

ExitLoop(done, stop) == done \/ stop

\* if (stopResponseFlag) { controller.abort('User: Stop Response'); }
AbortNever(aborts, stop) == aborts

AbortAlways(aborts, stop) == Append(aborts, AbortReason)

AbortIfStopped(aborts, stop) == IF stop THEN Append(aborts, AbortReason) ELSE aborts

\* lines 179-188: a read returns a chunk
ReadChunkAfterExit ==
    \E i \in DOMAIN sessions, n \in 1..MaxInputs :
      /\ Quiescent
      /\ sessions[i].pc \in {"read", "done"}
      /\ sessions[i].res = "ok"
      /\ Inputs + n <= MaxInputs
      /\ \E v \in ChunksOfLen(n) :
           IF ExitLoop(FALSE, stopResponseFlag)
           THEN sessions' = [sessions EXCEPT
                    ![i].chunks = Append(@, v),
                    ![i].aborts = AbortIfStopped(@, stopResponseFlag),
                    ![i].pc = "returned"]
           ELSE sessions' = [sessions EXCEPT
                    ![i].chunks = Append(@, v),
                    ![i].value = v, ![i].li = 1, ![i].pc = "lines"]
      /\ UNCHANGED <<system, selectedModelId, loading, stopResponseFlag, role, message, messages,
                     toasts, rendersTextarea, elsewhere>>

ReadChunk ==
    \E i \in DOMAIN sessions, n \in 1..MaxInputs :
      /\ Quiescent
      /\ sessions[i].pc = "read"
      /\ Inputs + n <= MaxInputs
      /\ \E v \in ChunksOfLen(n) :
           IF ExitLoop(FALSE, stopResponseFlag)
           THEN sessions' = [sessions EXCEPT
                    ![i].chunks = Append(@, v),
                    ![i].aborts = AbortIfStopped(@, stopResponseFlag),
                    ![i].pc = "returned"]
           ELSE sessions' = [sessions EXCEPT
                    ![i].chunks = Append(@, v),
                    ![i].value = v, ![i].li = 1, ![i].pc = "lines"]
      /\ UNCHANGED <<system, selectedModelId, loading, stopResponseFlag, role, message, messages,
                     toasts, rendersTextarea, elsewhere>>

\* lines 179-185: a read reports the end of the stream
ReadDone ==
    \E i \in DOMAIN sessions :
      /\ Quiescent
      /\ sessions[i].pc = "read"
      /\ IF ExitLoop(TRUE, stopResponseFlag)
         THEN sessions' = [sessions EXCEPT
                  ![i].aborts = AbortIfStopped(@, stopResponseFlag),
                  ![i].pc = "returned"]
         ELSE sessions' = [sessions EXCEPT ![i].value = <<>>, ![i].li = 1, ![i].pc = "lines"]
      /\ UNCHANGED <<system, selectedModelId, loading, stopResponseFlag, role, message, messages,
                     toasts, rendersTextarea, elsewhere>>

\* line 179: a read rejects (the connection breaks); nothing in the handler or in
\* submitHandler catches it
ReadError ==
    \E i \in DOMAIN sessions :
      /\ Quiescent
      /\ sessions[i].pc = "read"
      /\ sessions' = [sessions EXCEPT ![i].pc = "threw"]
      /\ UNCHANGED <<system, selectedModelId, loading, stopResponseFlag, role, message, messages,
                     toasts, rendersTextarea, elsewhere>>

\* lines 190-214: one line of the chunk in hand; a throw leaves the for loop
ProcessLineUnlessStopped ==
    \E i \in DOMAIN sessions :
      LET s == sessions[i]
          r == StepLine(messages[s.rIdx].content, s.value[s.li], s.textarea)
      IN /\ s.pc = "lines"
         /\ s.li <= Len(s.value)
         /\ IF stopResponseFlag
            THEN /\ UNCHANGED messages
                 /\ sessions' = [sessions EXCEPT
                        ![i].aborts = Append(@, AbortReason),
                        ![i].ticked = FALSE,
                        ![i].pc = "returned"]
            ELSE /\ messages' = [messages EXCEPT ![s.rIdx].content = r.content]
                 /\ sessions' = [sessions EXCEPT
                        ![i].li = IF r.threw THEN Len(s.value) + 1 ELSE s.li + 1,
                        ![i].ticked = r.ticked,
                        ![i].logged = IF r.threw THEN @ + 1 ELSE @]
         /\ UNCHANGED <<system, selectedModelId, loading, stopResponseFlag, role, message, toasts,
                        rendersTextarea, elsewhere>>

ProcessLineUncaught ==
    \E i \in DOMAIN sessions :
      LET s == sessions[i]
          r == StepLine(messages[s.rIdx].content, s.value[s.li], s.textarea)
      IN /\ s.pc = "lines"
         /\ s.li <= Len(s.value)
         /\ messages' = [messages EXCEPT ![s.rIdx].content = r.content]
         /\ sessions' = [sessions EXCEPT
                ![i].li = IF r.threw THEN Len(s.value) + 1 ELSE s.li + 1,
                ![i].ticked = r.ticked,
                ![i].pc = IF r.threw THEN "threw" ELSE @]
         /\ UNCHANGED <<system, selectedModelId, loading, stopResponseFlag, role, message, toasts,
                        rendersTextarea, elsewhere>>

ProcessLine ==
    \E i \in DOMAIN sessions :
      LET s == sessions[i]
          r == StepLine(messages[s.rIdx].content, s.value[s.li], s.textarea)
      IN /\ s.pc = "lines"
         /\ s.li <= Len(s.value)
         /\ messages' = [messages EXCEPT ![s.rIdx].content = r.content]
         /\ sessions' = [sessions EXCEPT
                ![i].li = IF r.threw THEN Len(s.value) + 1 ELSE s.li + 1,
                ![i].ticked = r.ticked,
                ![i].logged = IF r.threw THEN @ + 1 ELSE @]
         /\ UNCHANGED <<system, selectedModelId, loading, stopResponseFlag, role, message, toasts,
                        rendersTextarea, elsewhere>>

\* lines 215-220, 179: the catch, scrollToBottom, the next read
EndChunk ==
    \E i \in DOMAIN sessions :
      /\ sessions[i].pc = "lines"
      /\ sessions[i].li > Len(sessions[i].value)
      /\ sessions' = [sessions EXCEPT
             ![i].pc = "read", ![i].reads = @ + 1, ![i].value = <<>>, ![i].li = 0,
             ![i].ticked = FALSE]
      /\ UNCHANGED <<system, selectedModelId, loading, stopResponseFlag, role, message, messages,
                     toasts, rendersTextarea, elsewhere>>

\* lines 244-245: the handler has returned; submitHandler goes on
Return ==
    \E i \in DOMAIN sessions :
      /\ sessions[i].pc = "returned"
      /\ sessions' = [sessions EXCEPT ![i].pc = "done"]
      /\ IF sessions[i].caller = "submit"
         THEN loading' = FALSE /\ stopResponseFlag' = FALSE
         ELSE UNCHANGED <<loading, stopResponseFlag>>
      /\ UNCHANGED <<system, selectedModelId, role, message, messages, toasts, rendersTextarea, elsewhere>>

----------------------------------------------------------------------------
(* The component, driven from its template. *)

Init ==
    /\ selectedModelId \in InitialModelIds
    /\ loading = FALSE
    /\ stopResponseFlag = FALSE
    /\ system = <<>>
    /\ role = "user"
    /\ message = <<>>
    /\ messages = <<>>
    /\ toasts = <<>>
    /\ sessions = <<>>
    /\ rendersTextarea = TRUE
    /\ ElsewhereConstructed

Next ==
    \/ TypeMessage
    \/ TypeSystem
    \/ AddClick
    \/ SelectModel
    \/ StopResponse
    \/ Submit
    \/ HandlerEntry
    \/ Response
    \/ AfterTick
    \/ ReadChunk
    \/ ReadDone
    \/ ReadError
    \/ ProcessLine
    \/ EndChunk
    \/ Return

Spec == Init /\ [][Next]_vars

----------------------------------------------------------------------------
(* The component with a transport whose reads all return, and a fair event *)
(* loop: every continuation of the handler that is ready to run is run, and *)
(* every pending read returns a chunk or the end of the stream.             *)

NextFair ==
    \/ TypeMessage
    \/ TypeSystem
    \/ AddClick
    \/ SelectModel
    \/ StopResponse
    \/ Submit
    \/ HandlerEntry
    \/ Response
    \/ AfterTick
    \/ ReadChunk
    \/ ReadDone
    \/ ProcessLine
    \/ EndChunk
    \/ Return

\* the continuations the event loop owes the handler
HandlerStep == HandlerEntry \/ AfterTick \/ ProcessLine \/ EndChunk \/ Return

\* the results the transport owes a pending read
ReadReturns == ReadChunk \/ ReadDone

SpecFair ==
    /\ Init
    /\ [][NextFair]_vars
    /\ WF_vars(HandlerStep)
    /\ WF_vars(ReadReturns)

----------------------------------------------------------------------------
(* chatCompletionHandler on its own: called directly, on any conversation and *)
(* any selected model id, with stopResponse called while it runs.            *)

InitialConversations ==
    {<<>>,
     <<[role |-> "user", content |-> Typed]>>,
     <<[role |-> "assistant", content |-> Typed]>>,
     <<[role |-> "user", content |-> Typed], [role |-> "assistant", content |-> <<>>]>>}

\* a call of chatCompletionHandler, once the call before it has finished
InvokeHandler ==
    /\ \A i \in DOMAIN sessions : Ended(sessions[i])
    /\ Inputs < MaxInputs
    /\ sessions' = Append(sessions, NewSession("direct"))
    /\ UNCHANGED <<system, selectedModelId, loading, stopResponseFlag, role, message, messages,
                   toasts, rendersTextarea, elsewhere>>

\* a call of stopResponse while a call of the handler waits for the network
StopResponseCall ==
    /\ Quiescent
    /\ \E i \in DOMAIN sessions : ~Ended(sessions[i])
    /\ stopResponseFlag' = TRUE
    /\ UNCHANGED <<system, selectedModelId, loading, role, message, messages, toasts, sessions,
                   rendersTextarea, elsewhere>>

\* a call of stopResponse while the for loop waits in the `await tick()` of line 212
\* with lines of the chunk still to go (after the last line it is StopResponseCall
\* at the read that follows)
StopResponseAtTick ==
    /\ \E i \in DOMAIN sessions :
         /\ sessions[i].pc = "lines"
         /\ sessions[i].ticked
         /\ sessions[i].li <= Len(sessions[i].value)
    /\ stopResponseFlag' = TRUE
    /\ UNCHANGED <<system, selectedModelId, loading, role, message, messages, toasts, sessions,
                   rendersTextarea, elsewhere>>

InitHandler ==
    /\ selectedModelId \in InitialModelIds
    /\ loading = FALSE
    /\ stopResponseFlag = FALSE
    /\ system \in {<<>>, TypedSystem}
    /\ role = "user"
    /\ message = <<>>
    /\ messages \in InitialConversations
    /\ toasts = <<>>
    /\ sessions = <<>>
    /\ rendersTextarea = TRUE
    /\ ElsewhereConstructed

\* the message list (the Messages component) may render no element with the id the
\* handler looks up
InitRender ==
    /\ selectedModelId \in InitialModelIds
    /\ loading = FALSE
    /\ stopResponseFlag = FALSE
    /\ system \in {<<>>, TypedSystem}
    /\ role = "user"
    /\ message = <<>>
    /\ messages \in InitialConversations
    /\ toasts = <<>>
    /\ sessions = <<>>
    /\ rendersTextarea \in BOOLEAN
    /\ ElsewhereConstructed

NextHandler ==
    \/ InvokeHandler
    \/ StopResponseCall
    \/ StopResponseAtTick
    \/ HandlerEntry
    \/ Response
    \/ AfterTick
    \/ ReadChunk
    \/ ReadDone
    \/ ReadError
    \/ ProcessLine
    \/ EndChunk
    \/ Return

SpecHandler == InitHandler /\ [][NextHandler]_vars

SpecRender == InitRender /\ [][NextHandler]_vars

----------------------------------------------------------------------------
(* The specifications of the other components. *)

\* the playground chat as constructed (lines 35-61)
ChatConstructed ==
    /\ selectedModelId = ""
    /\ loading = FALSE
    /\ stopResponseFlag = FALSE
    /\ system = <<>>
    /\ role = "user"
    /\ message = <<>>
    /\ messages = <<>>
    /\ toasts = <<>>
    /\ sessions = <<>>
    /\ rendersTextarea = TRUE

InitStrands ==
    /\ ChatConstructed
    /\ ElsewhereConstructed

NextStrands ==
    \/ Mount
    \/ LoadSettles
    \/ SetConfig
    \/ CheckHealthClick
    \/ HealthSettles

SpecStrands == InitStrands /\ [][NextStrands]_vars

InitPicker ==
    /\ ChatConstructed
    /\ ElsewhereConstructed

NextPicker ==
    \/ SelectRegion
    \/ FetchSettles
    \/ SelectCustomer

SpecPicker == InitPicker /\ [][NextPicker]_vars

InitLogs ==
    /\ ChatConstructed
    /\ ElsewhereConstructed

NextLogs ==
    \/ SetEnable
    \/ UpdateHandler
    \/ UpdateLogConfigSettles
    \/ LoadLogInfoSettles
    \/ LoadLogFilesSettles

SpecLogs == InitLogs /\ [][NextLogs]_vars

\* a call of any wrapper, its fetch ending in any way
InitApi ==
    /\ ChatConstructed
    /\ StrandsConstructed
    /\ PickerConstructed
    /\ LogsConstructed
    /\ apiCall \in [wrapper : Wrappers, outcome : ApiOutcomes]
    /\ apiResult = Pending

NextApi == ApiSettles

SpecApi == InitApi /\ [][NextApi]_vars

----------------------------------------------------------------------------
(* What the claims speak of. *)

\* the content of the turn session s mutates
TargetContent(s) == messages[s.rIdx].content

RECURSIVE Flatten(_)
\* the lines of a sequence of chunks, in delivery order
Flatten(chunks) == IF chunks = <<>> THEN <<>> ELSE Head(chunks) \o Flatten(Tail(chunks))

\* a valid line: not blank, not the sentinel, and JSON that parses
IsFragmentLine(line) ==
    /\ ~LineIsEmpty(line)
    /\ ~LineIsDone(line)
    /\ JSONParse(StripDataPrefix(line)).ok

\* the fragment a valid line carries ('' when the delta has no content)
FragmentOf(line) ==
    LET c == DeltaContent(JSONParse(StripDataPrefix(line)).val)
    IN IF c.defined THEN c.content ELSE <<>>

RECURSIVE ConcatValid(_, _)
\* acc followed by the fragments of the valid lines, in order, without the "\n"
\* fragments that arrive while nothing has been accumulated
ConcatValid(acc, lines) ==
    IF lines = <<>> THEN acc
    ELSE LET l == Head(lines)
             next == IF IsFragmentLine(l) /\ ~(acc = <<>> /\ FragmentOf(l) = <<NL>>)
                     THEN acc \o FragmentOf(l)
                     ELSE acc
         IN ConcatValid(next, Tail(lines))

\* the fragment lines among lines, in order
FragmentLines(lines) == SelectSeq(lines, IsFragmentLine)

IsConversationTurn(m) == m.role # "system"

\* the conversation turns in a request body: its messages without the system turn
Conversation(body) == SelectSeq(body.messages, IsConversationTurn)

\* session s got an ok response and its loop ended at the end of the stream, with no
\* stop request: the handler has just returned
Exhausted(s) == s.pc = "returned" /\ s.res = "ok" /\ s.aborts = <<>>

----------------------------------------------------------------------------
C2_FirstNewlineNeverInContent ==
    \A i \in DOMAIN sessions :
      LET s == sessions[i]
          f == FragmentLines(Flatten(s.chunks))
      IN (/\ s.rIdx > 0
          /\ f # <<>>
          /\ Head(f) = FragNLLine
          /\ \A k \in 2..Len(f) : f[k] # FragNLLine)
            => \A k \in DOMAIN TargetContent(s) : TargetContent(s)[k] # NL

\* C2 (amended): a "\n" fragment the loop processes while the assistant content is
\* empty is skipped, the first fragment of a stream included; a "\n" fragment the loop
\* processes once the content is non-empty is appended at the end; and no step takes
\* anything away from the content of a turn.
C2_NewlineSkippedOnlyWhileEmpty ==
    [][/\ \A i \in DOMAIN sessions :
            LET s == sessions[i] IN
            (s.pc = "lines" /\ s.li <= Len(s.value) /\ s.value[s.li] = FragNLLine)
               => /\ sessions'[i].li = s.li + 1
                  /\ messages'[s.rIdx].content =
                        IF TargetContent(s) = <<>> THEN <<>>
                        ELSE TargetContent(s) \o <<NL>>
       /\ \A k \in DOMAIN messages :
            IsPrefix(messages[k].content, messages'[k].content)]_vars

\* C2 witness: a stream "\n", "a", "\n" into a new assistant turn is over, and the
\* content is "a\n": the first "\n" was skipped, the later one kept.
C2_Witness ==
    \E i \in DOMAIN sessions :
      /\ Exhausted(sessions[i])
      /\ sessions[i].fresh
      /\ Flatten(sessions[i].chunks) = <<FragNLLine, FragALine, FragNLLine>>
      /\ TargetContent(sessions[i]) = <<"a", NL>>

C4_CancellationBoundary ==
    [][\A i \in DOMAIN sessions :
         /\ Len(sessions'[i].aborts) <= 1
         /\ (/\ sessions[i].pc = "read"
             /\ stopResponseFlag
             /\ sessions'[i].pc \notin {"read", "threw"})
              => /\ sessions'[i].pc = "returned"
                 /\ messages' = messages
                 /\ sessions[i].aborts = <<>>
                 /\ sessions'[i].aborts = <<AbortReason>>]_vars

\* C4 witness: chunk 1 ("a") was applied, the stop flag was set, chunk 2 ("a") was
\* read and dropped, and the abort handle was invoked once.
C4_Witness ==
    \E i \in DOMAIN sessions :
      /\ sessions[i].pc = "returned"
      /\ sessions[i].fresh
      /\ sessions[i].chunks = << <<FragALine>>, <<FragALine>> >>
      /\ sessions[i].reads = 2
      /\ sessions[i].aborts = <<AbortReason>>
      /\ TargetContent(sessions[i]) = <<"a">>

\* C5: when the response is not ok, or there is no response object, the handler
\* opens no reader and reads nothing, issues no second request, and leaves every turn
\* as it was when the request was issued; a turn it appended stays empty.
C5_NotOkShortCircuit ==
    \A i \in DOMAIN sessions :
      LET s == sessions[i] IN
      (s.res \in {"notok", "null"} /\ s.pc \in {"tick", "returned"})
         => /\ s.reads = 0
            /\ s.chunks = <<>>
            /\ Len(s.requests) = 1
            /\ messages =
                 IF s.fresh
                 THEN Append(Conversation(s.requests[1]), [role |-> "assistant", content |-> <<>>])
                 ELSE Conversation(s.requests[1])

\* C5 witness: a handler that got a non-ok response has returned, with the turn it
\* appended.
C5_Witness ==
    \E i \in DOMAIN sessions :
      /\ sessions[i].res = "notok"
      /\ sessions[i].pc = "returned"
      /\ sessions[i].fresh

\* C6: a call of chatCompletionHandler with selectedModelId = '' returns at once: it
\* issues no request, leaves the conversation as it is and shows exactly one
\* notification, and nothing more happens until its caller goes on.
C6_NoModelSelected ==
    [][\A i \in DOMAIN sessions :
         /\ (sessions[i].pc = "entry" /\ selectedModelId = "")
              => /\ sessions'[i].pc = "returned"
                 /\ sessions'[i].requests = <<>>
                 /\ toasts' = Append(toasts, NoModelToast)
                 /\ messages' = messages
         /\ (sessions[i].pc = "returned" /\ sessions[i].requests = <<>>)
              => /\ sessions'[i].requests = <<>>
                 /\ toasts' = toasts
                 /\ messages' = messages]_vars

\* C6 witness: a call on a non-empty conversation with no model selected has
\* returned: one notification, no request.
C6_Witness ==
    /\ Len(sessions) = 1
    /\ sessions[1].pc = "returned"
    /\ sessions[1].requests = <<>>
    /\ toasts = <<NoModelToast>>
    /\ messages # <<>>

\* C7: a call with a non-empty selected model id that matches no known model returns
\* before issuing the request and shows a notification: every call that ended without
\* a request comes with one notification.
C7_UnresolvedModelNotified ==
    Len(toasts) = Cardinality({i \in DOMAIN sessions :
                                  /\ sessions[i].pc \in {"returned", "done"}
                                  /\ sessions[i].requests = <<>>})

\* C8: whenever the sessions started through submitHandler have ended, by the end of
\* the stream, by cancellation, by a non-ok response or by an error of a read, loading
\* is false and the stop flag is false.
C8_BackToIdle ==
    (sessions # <<>> /\ \A i \in DOMAIN sessions : Ended(sessions[i]))
       => (~loading /\ ~stopResponseFlag)

\* C9: at most one session is in flight at any time; loading is true from submit
\* until the handler has returned and submitHandler has gone on; Run is offered only
\* while no session is in flight.
C9_SingleSession ==
    /\ Cardinality({i \in DOMAIN sessions : ~Ended(sessions[i])}) <= 1
    /\ \A i \in DOMAIN sessions : ~Ended(sessions[i]) => loading
    /\ RunOffered => \A i \in DOMAIN sessions : Ended(sessions[i])

\* C9 witness: the first session has ended and a second one is in its line loop,
\* with loading true.
C9_Witness ==
    /\ Len(sessions) = 2
    /\ sessions[1].pc = "done"
    /\ sessions[2].pc = "lines"
    /\ loading

\* the state of the session state machine that session s is in
Phase(s) ==
    CASE s.pc = "entry" -> "Idle"
      [] s.pc \in {"request", "tick"} -> "RequestIssued"
      [] s.pc \in {"read", "lines"} -> "Streaming"
      [] OTHER -> IF s.requests = <<>> THEN "Idle"
                  ELSE IF s.aborts # <<>> THEN "Cancelled"
                  ELSE IF s.pc = "threw" \/ s.res # "ok" THEN "Failed"
                  ELSE "Completed"

Terminal == {"Completed", "Cancelled", "Failed"}

\* C10 (as stated): every session goes Idle -> RequestIssued -> Streaming -> a terminal
\* state: a session that issued a request and has ended has been in Streaming, that
\* is, has read from the stream.
C10_EverySessionStreams ==
    \A i \in DOMAIN sessions :
      (sessions[i].requests # <<>> /\ Phase(sessions[i]) \in Terminal)
         => sessions[i].reads >= 1

\* C10 (amended): a session moves only along Idle -> RequestIssued -> Streaming ->
\* {Completed, Cancelled, Failed}, and along RequestIssued -> Failed when the response
\* is not ok; a session whose precondition fails never leaves Idle.  Streaming is
\* entered only after a request was issued and an ok response, is re-entered once per
\* chunk (one read per chunk) until a read reports the end or finds the stop flag set,
\* and is left for good then; a session in a terminal state never changes state; a
\* new session starts only when the sessions before it have ended, and leaves them as
\* they are.
C10_StateMachine ==
    [][\A i \in DOMAIN sessions :
         LET s == sessions[i]
             t == sessions'[i]
         IN /\ Phase(s) = "Idle" => Phase(t) \in {"Idle", "RequestIssued"}
            /\ Phase(s) = "RequestIssued" => Phase(t) \in {"RequestIssued", "Streaming", "Failed"}
            /\ Phase(s) = "Streaming" => Phase(t) \in {"Streaming"} \cup Terminal
            /\ Phase(s) \in Terminal => Phase(t) = Phase(s)
            /\ (Phase(s) = "RequestIssued" /\ Phase(t) = "Failed") => t.res # "ok"
            /\ Phase(t) = "Streaming"
                 => /\ t.requests # <<>>
                    /\ t.res = "ok"
                    /\ t.reads = Len(t.chunks) + (IF t.pc = "read" THEN 1 ELSE 0)
            /\ (s.pc = "read" /\ t.pc # "read")
                 => IF stopResponseFlag \/ t.chunks = s.chunks
                    THEN Phase(t) \in Terminal
                    ELSE Phase(t) = "Streaming"
            /\ Len(sessions') > Len(sessions)
                 => (Phase(s) \in Terminal \cup {"Idle"} /\ Ended(s) /\ t = s)]_vars

\* C10 witness: a first session was cancelled and is over, and a second session,
\* started by a new Run, is streaming.
C10_Witness ==
    /\ Len(sessions) = 2
    /\ sessions[1].pc = "done"
    /\ Phase(sessions[1]) = "Cancelled"
    /\ sessions[2].pc = "lines"

\* C11: the request carries the selected model id, stream = true, and as messages the
\* system turn (present exactly when the system text is non-empty, and then first)
\* followed by the conversation turns in their order at the time of the call; the
\* handler issues it once and nothing that happens later (the assistant turn the call
\* appends, the fragments) becomes part of it.
C11_RequestPayload ==
    [][\A i \in DOMAIN sessions :
         LET s == sessions[i]
             t == sessions'[i]
         IN /\ (s.pc = "entry" /\ t.pc = "request")
                 => /\ Len(t.requests) = 1
                    /\ t.requests[1].model = selectedModelId
                    /\ t.requests[1].stream = TRUE
                    /\ IF system = <<>>
                       THEN t.requests[1].messages = messages
                       ELSE /\ Head(t.requests[1].messages)
                                 = [role |-> "system", content |-> system]
                            /\ Tail(t.requests[1].messages) = messages
            /\ s.pc # "entry" => t.requests = s.requests]_vars

\* C11 witness: a request with the system turn first and the user turn after it was
\* issued, and the handler has appended the assistant turn, which the request lacks.
C11_Witness ==
    \E i \in DOMAIN sessions :
      /\ sessions[i].pc = "tick"
      /\ sessions[i].fresh
      /\ sessions[i].requests =
           <<[model |-> "m1", stream |-> TRUE,
              messages |-> <<[role |-> "system", content |-> TypedSystem],
                             [role |-> "user", content |-> Typed]>>]>>
      /\ messages = <<[role |-> "user", content |-> Typed],
                      [role |-> "assistant", content |-> <<>>]>>

\* C12: when the request returns, the handler reuses the last turn if it is an
\* assistant turn (the conversation keeps its length, the turn keeps its content) and
\* otherwise appends exactly one empty assistant turn at the end; from then on it
\* adds and removes no turn, and changes no turn but that one, whose content it only
\* extends.
C12_TargetTurn ==
    [][\A i \in DOMAIN sessions :
         LET s == sessions[i]
             t == sessions'[i]
         IN /\ (s.pc = "request" /\ t.pc # "request")
                 => IF messages # <<>> /\ messages[Len(messages)].role = "assistant"
                    THEN /\ messages' = messages
                         /\ t.rIdx = Len(messages)
                    ELSE /\ messages' = Append(messages, [role |-> "assistant",
                                                          content |-> <<>>])
                         /\ t.rIdx = Len(messages')
            /\ s.pc \in {"entry", "tick", "read", "lines", "returned"}
                 => /\ Len(messages') = Len(messages)
                    /\ \A k \in DOMAIN messages :
                         /\ messages'[k].role = messages[k].role
                         /\ k # s.rIdx => messages'[k] = messages[k]
                         /\ k = s.rIdx => IsPrefix(messages[k].content,
                                                   messages'[k].content)]_vars

\* C12 witness: a session that reused the assistant turn the user had added has
\* extended its content; the conversation still has that one turn.
C12_Witness ==
    \E i \in DOMAIN sessions :
      /\ sessions[i].pc = "returned"
      /\ ~sessions[i].fresh
      /\ sessions[i].rIdx = 1
      /\ messages = <<[role |-> "assistant", content |-> Typed \o <<"a">>]>>

\* C13: a session whose stream consists solely of the line `data: [DONE]` ends with
\* the content of its newly appended assistant turn empty, and with no error caught
\* and logged.
C13_SentinelIsNoOp ==
    \A i \in DOMAIN sessions :
      (/\ Exhausted(sessions[i])
       /\ sessions[i].fresh
       /\ Flatten(sessions[i].chunks) = <<DoneLine>>)
         => /\ TargetContent(sessions[i]) = <<>>
            /\ sessions[i].logged = 0

\* C13 witness: a session on a new assistant turn has read the sentinel alone, then
\* the end of the stream, and has left the loop.
C13_Witness ==
    \E i \in DOMAIN sessions :
      /\ Exhausted(sessions[i])
      /\ sessions[i].fresh
      /\ sessions[i].chunks = <<(<<DoneLine>>)>>
      /\ sessions[i].reads = 2
      /\ sessions[i].logged = 0
      /\ TargetContent(sessions[i]) = <<>>

RECURSIVE IsSubsequence(_, _)
\* a is b with some of its elements left out
IsSubsequence(a, b) ==
    IF a = <<>> THEN TRUE
    ELSE IF b = <<>> THEN FALSE
    ELSE IF Head(a) = Head(b) THEN IsSubsequence(Tail(a), Tail(b))
    ELSE IsSubsequence(a, Tail(b))

RECURSIVE FragmentsOf(_)
\* the fragments of the valid lines among lines, in order, one after the other
FragmentsOf(lines) ==
    IF lines = <<>> THEN <<>>
    ELSE (IF IsFragmentLine(Head(lines)) THEN FragmentOf(Head(lines)) ELSE <<>>)
           \o FragmentsOf(Tail(lines))

\* C14: while a session runs, a step leaves the content of its assistant turn as it
\* is or appends to its end the fragment of the line the loop is at, a line of the
\* chunk delivered last, and moves the loop to the next line; so the content is the
\* content at the start of the session followed by fragments delivered so far, in
\* delivery order (for a newly appended turn: a subsequence of all the fragments
\* delivered so far).
C14_ContentGrowsInDeliveryOrder ==
    [][\A i \in DOMAIN sessions :
         LET s == sessions[i]
             t == sessions'[i]
         IN /\ (s.rIdx \in DOMAIN messages /\ ~Ended(s))
                 => \/ messages'[s.rIdx].content = messages[s.rIdx].content
                    \/ /\ s.pc = "lines"
                       /\ s.value = s.chunks[Len(s.chunks)]
                       /\ s.li \in DOMAIN s.value
                       /\ IsFragmentLine(s.value[s.li])
                       /\ messages'[s.rIdx].content
                            = messages[s.rIdx].content \o FragmentOf(s.value[s.li])
                       /\ t.li = s.li + 1
                       /\ t.value = s.value
                       /\ t.chunks = s.chunks
            /\ (t.rIdx \in DOMAIN messages' /\ t.fresh /\ ~Ended(t))
                 => IsSubsequence(messages'[t.rIdx].content,
                                  FragmentsOf(Flatten(t.chunks)))]_vars

\* C14 witness: of the fragments "\n", "a", "\n" delivered in one chunk, the last two
\* have been applied, in that order.
C14_Witness ==
    \E i \in DOMAIN sessions :
      /\ sessions[i].pc = "lines"
      /\ sessions[i].fresh
      /\ sessions[i].chunks = <<(<<FragNLLine, FragALine, FragNLLine>>)>>
      /\ sessions[i].li = 4
      /\ TargetContent(sessions[i]) = <<"a", NL>>

\* C15: the stop flag is examined when a read returns and not per line: while the for
\* loop is in a chunk, no step invokes the abort handle or leaves the loop, and with
\* the flag set each remaining line is processed as it is with the flag clear; the
\* abort handle is invoked only by a step on which a read returns.
C15_StopExaminedPerRead ==
    [][\A i \in DOMAIN sessions :
         LET s == sessions[i]
             t == sessions'[i]
         IN /\ s.pc = "lines"
                 => /\ t.aborts = s.aborts
                    /\ t.pc \in {"lines", "read"}
                    /\ (stopResponseFlag /\ s.li \in DOMAIN s.value /\ t # s)
                         => /\ t.pc = "lines"
                            /\ t.li > s.li
                            /\ messages'[s.rIdx].content
                                 = StepLine(messages[s.rIdx].content, s.value[s.li],
                                            s.textarea).content
            /\ t.aborts # s.aborts => s.pc = "read" /\ t.pc = "returned"]_vars

\* C15 witness: stopResponse ran in the suspension after the first fragment of a
\* chunk of two; the second fragment has been applied all the same, and the abort
\* handle has not been invoked.
C15_Witness ==
    \E i \in DOMAIN sessions :
      /\ stopResponseFlag
      /\ sessions[i].pc = "lines"
      /\ sessions[i].value = <<FragALine, FragALine>>
      /\ sessions[i].li = 3
      /\ sessions[i].fresh
      /\ TargetContent(sessions[i]) = <<"a", "a">>
      /\ sessions[i].aborts = <<>>

\* C16: the abort handle is invoked only on the step on which a read returns while
\* the stop flag is set, whether the read returns a chunk or the end of the stream;
\* it is invoked once, with the reason string, and the handler returns; a step that
\* sets the stop flag does not invoke it, so a session in which no stop was requested
\* never invokes it.
C16_AbortOnlyAfterRead ==
    [][/\ \A i \in DOMAIN sessions :
            LET s == sessions[i]
                t == sessions'[i]
            IN /\ t.aborts # s.aborts
                    => /\ s.pc = "read"
                       /\ stopResponseFlag
                       /\ s.aborts = <<>>
                       /\ t.aborts = <<AbortReason>>
                       /\ t.pc = "returned"
               /\ (s.pc = "read" /\ t.pc \notin {"read", "threw"} /\ stopResponseFlag)
                    => t.aborts = <<AbortReason>>
               /\ (s.pc = "read" /\ t.pc \notin {"read", "threw"} /\ ~stopResponseFlag)
                    => t.aborts = <<>>
       /\ (~stopResponseFlag /\ stopResponseFlag') => sessions' = sessions]_vars

\* C16 witness: stop was requested while the first read was pending, the read
\* reported the end of the stream, and the abort handle was invoked once.
C16_Witness ==
    \E i \in DOMAIN sessions :
      /\ sessions[i].pc = "returned"
      /\ sessions[i].res = "ok"
      /\ sessions[i].reads = 1
      /\ sessions[i].chunks = <<>>
      /\ sessions[i].aborts = <<AbortReason>>
      /\ stopResponseFlag

\* C17: when the stop flag is set while the session in flight streams (its read is
\* pending), then, the event loop being fair and every pending read returning a chunk
\* or the end of the stream, that session (the last one started: no other can start
\* before it ends) eventually ends cancelled: the abort handle invoked, the handler
\* returned and loading false again.
C17_StopEndsCancelled ==
    (/\ sessions # <<>>
     /\ sessions[Len(sessions)].pc = "read"
     /\ stopResponseFlag)
      ~> (/\ sessions # <<>>
          /\ sessions[Len(sessions)].pc = "done"
          /\ sessions[Len(sessions)].aborts = <<AbortReason>>
          /\ ~loading)

\* C17 witness: a session that applied a fragment, was stopped and had its next chunk
\* dropped has ended: the abort handle invoked, loading false, the flag reset.
C17_Witness ==
    \E i \in DOMAIN sessions :
      /\ sessions[i].pc = "done"
      /\ sessions[i].caller = "submit"
      /\ sessions[i].chunks = <<(<<FragALine>>), (<<FragALine>>)>>
      /\ sessions[i].aborts = <<AbortReason>>
      /\ TargetContent(sessions[i]) = <<"a">>
      /\ ~loading
      /\ ~stopResponseFlag

\* C18: the stop flag is false on the step that starts a session; a step that sets it
\* is the Cancel action (offered while loading) and no step of the handler; and once
\* true it is made false again only on the step on which submitHandler goes on after
\* chatCompletionHandler has returned.
C18_StopFlagMonotonic ==
    [][/\ Len(sessions') > Len(sessions)
            => ~stopResponseFlag /\ ~stopResponseFlag'
       /\ (~stopResponseFlag /\ stopResponseFlag')
            => /\ loading
               /\ sessions' = sessions
               /\ messages' = messages
       /\ (stopResponseFlag /\ ~stopResponseFlag')
            => \E i \in DOMAIN sessions :
                 /\ sessions[i].caller = "submit"
                 /\ sessions[i].pc = "returned"
                 /\ sessions'[i].pc = "done"
                 /\ ~loading']_vars

\* C18 witness: the flag, set after the first chunk was processed, is still true while
\* the second read is pending.
C18_Witness ==
    \E i \in DOMAIN sessions :
      /\ stopResponseFlag
      /\ loading
      /\ sessions[i].pc = "read"
      /\ sessions[i].reads = 2
      /\ sessions[i].chunks = <<(<<FragALine>>)>>
      /\ sessions[i].aborts = <<>>

\* the handler of session s has left the read loop, or never entered it, and returned
LoopExited(s) == s.pc \in {"returned", "done", "threw"}

\* C19: once the handler of a session has left the read loop (at the end of the
\* stream, on cancellation, or without entering it after a response that is not ok),
\* the session reads nothing more and applies nothing more: its reads, its chunks,
\* its abort calls and its requests stay as they are, it stays out of the loop, and
\* the conversation changes only by the user's doing or by a later session.
C19_NothingAfterExit ==
    [][\A i \in DOMAIN sessions :
         LET s == sessions[i]
             t == sessions'[i]
         IN LoopExited(s)
              => /\ LoopExited(t)
                 /\ t.reads = s.reads
                 /\ t.chunks = s.chunks
                 /\ t.aborts = s.aborts
                 /\ t.requests = s.requests
                 /\ t.logged = s.logged
                 /\ s.pc = "returned" => messages' = messages
                 /\ messages' # messages
                      => \/ sessions' = sessions
                         \/ Len(sessions') > Len(sessions)
                         \/ \E j \in DOMAIN sessions :
                              /\ j > i
                              /\ ~LoopExited(sessions[j])
                              /\ sessions'[j] # sessions[j]]_vars

\* C19 witness: a session that read one chunk and the end of the stream has ended; a
\* later session has extended the same assistant turn, and the reads and chunks of
\* the first are as they were.
C19_Witness ==
    /\ Len(sessions) = 2
    /\ sessions[1].pc = "done"
    /\ sessions[1].reads = 2
    /\ sessions[1].chunks = <<(<<FragALine>>)>>
    /\ sessions[1].aborts = <<>>
    /\ sessions[2].pc = "read"
    /\ sessions[2].rIdx = sessions[1].rIdx
    /\ sessions[2].chunks = <<(<<FragALine>>)>>
    /\ TargetContent(sessions[2]) = <<"a", "a">>

\* the line throws in JSON.parse
IsMalformedLine(line) ==
    /\ ~LineIsEmpty(line)
    /\ ~LineIsDone(line)
    /\ ~JSONParse(StripDataPrefix(line)).ok

\* C20: on each of the four handled outcomes the handler goes on to return: with no
\* model selected or resolved it returns at once; with a response that is not ok it
\* returns without reading; a malformed line is caught and logged and the loop goes
\* on; a read that returns while the stop flag is set makes it return.  No step of
\* these throws out of the handler, and a notification is issued only by the
\* precondition branch.
C20_HandledOutcomesReturn ==
    [][/\ \A i \in DOMAIN sessions :
            LET s == sessions[i]
                t == sessions'[i]
            IN /\ (s.pc = "entry" /\ selectedModelId \notin models /\ t # s)
                    => t.pc = "returned"
               /\ (s.pc = "tick" /\ s.res # "ok" /\ t # s)
                    => t.pc = "returned" /\ t.reads = 0
               /\ (s.pc = "lines" /\ s.li \in DOMAIN s.value
                     /\ IsMalformedLine(s.value[s.li]) /\ t # s)
                    => /\ t.pc = "lines"
                       /\ t.logged = s.logged + 1
                       /\ messages' = messages
               /\ (s.pc = "read" /\ stopResponseFlag /\ t.chunks # s.chunks)
                    => t.pc = "returned"
               /\ (t.pc = "threw" /\ s.pc # "threw")
                    => s.pc = "read" /\ t.chunks = s.chunks
       /\ toasts' # toasts
            => /\ toasts' = Append(toasts, NoModelToast)
               /\ \E i \in DOMAIN sessions :
                    /\ sessions[i].pc = "entry"
                    /\ sessions'[i].pc = "returned"
                    /\ selectedModelId = ""]_vars

\* C20 witness: a session whose stream was one malformed line has caught and logged
\* the error and has returned, with no notification.
C20_Witness ==
    \E i \in DOMAIN sessions :
      /\ sessions[i].pc = "done"
      /\ sessions[i].caller = "direct"
      /\ sessions[i].chunks = <<(<<GarbageLine>>)>>
      /\ sessions[i].logged = 1
      /\ sessions[i].aborts = <<>>
      /\ toasts = <<>>

\* C21: the line `data: [DONE]` appends nothing and ends nothing: the for loop goes
\* on to the next line with the content as it was and nothing logged, the handler
\* leaves the loop only on a step on which a read returns the end of the stream or
\* returns while the stop flag is set, and a fragment delivered after the sentinel,
\* in the same chunk or in a later one, is appended.
C21_SentinelDoesNotEnd ==
    [][\A i \in DOMAIN sessions :
         LET s == sessions[i]
             t == sessions'[i]
         IN /\ (s.pc = "lines" /\ s.li \in DOMAIN s.value
                  /\ s.value[s.li] = DoneLine /\ t # s)
                 => /\ t.pc = "lines"
                    /\ t.li = s.li + 1
                    /\ t.logged = s.logged
                    /\ t.aborts = s.aborts
                    /\ messages' = messages
            /\ (s.pc \in {"read", "lines"} /\ t.pc = "returned")
                 => /\ s.pc = "read"
                    /\ t.chunks = s.chunks \/ stopResponseFlag
            /\ (Exhausted(t) /\ t.fresh
                  /\ Flatten(t.chunks) = <<DoneLine, FragALine>>)
                 => messages'[t.rIdx].content = <<"a">>]_vars

\* C21 witness: the sentinel came alone in the first chunk; the fragment of the second
\* chunk has been appended all the same.
C21_Witness ==
    \E i \in DOMAIN sessions :
      /\ sessions[i].pc = "lines"
      /\ sessions[i].fresh
      /\ sessions[i].chunks = <<(<<DoneLine>>), (<<FragALine>>)>>
      /\ sessions[i].li = 2
      /\ TargetContent(sessions[i]) = <<"a">>

\* the content the turn of session s had in the request, where it was the last turn
ContentWhenSelected(s) ==
    IF s.fresh THEN <<>>
    ELSE LET c == Conversation(s.requests[1]) IN c[Len(c)].content

\* C23: a chunk whose read returns while the stop flag is set is never taken in hand:
\* the handler returns on that step and the conversation stays as it is; and when
\* the flag was set before the first read returned (while it was pending, or before
\* the response arrived), the session ends with the content its turn had when it was
\* selected.
C23_ChunkDiscardedWhenStopped ==
    [][\A i \in DOMAIN sessions :
         LET s == sessions[i]
             t == sessions'[i]
         IN /\ (s.pc = "read" /\ stopResponseFlag /\ t.chunks # s.chunks)
                 => /\ t.pc = "returned"
                    /\ t.value = <<>>
                    /\ messages' = messages
            /\ (s.pc = "request" /\ stopResponseFlag /\ t.pc = "tick")
                 => messages'[t.rIdx].content = ContentWhenSelected(t)
            /\ (t.pc = "returned" /\ t.reads = 1 /\ t.aborts # <<>>)
                 => messages'[t.rIdx].content = ContentWhenSelected(t)]_vars

\* C23 witness: stop was requested before the first read returned; the read returned
\* a chunk with a fragment, which was dropped: the reused turn has the content the
\* user typed.
C23_Witness ==
    \E i \in DOMAIN sessions :
      /\ sessions[i].pc = "returned"
      /\ ~sessions[i].fresh
      /\ sessions[i].reads = 1
      /\ sessions[i].chunks = <<(<<FragALine>>)>>
      /\ sessions[i].aborts = <<AbortReason>>
      /\ TargetContent(sessions[i]) = Typed

RECURSIVE DropLeadingNewlines(_)
\* text without the "\n" it starts with
DropLeadingNewlines(text) ==
    IF text # <<>> /\ Head(text) = NL THEN DropLeadingNewlines(Tail(text)) ELSE text

\* C24: in a session on a newly appended turn the content never starts with "\n";
\* and when all the lines delivered and processed so far are "\n" and "a" fragments,
\* the content is their concatenation without the whole run of "\n" it starts with:
\* empty as long as only "\n" fragments have come, and beginning with the first
\* fragment that is not "\n".
C24_LeadingNewlinesAllSkipped ==
    \A i \in DOMAIN sessions :
      LET s == sessions[i] IN
      (s.fresh /\ s.pc \in {"read", "lines", "returned"})
        => /\ TargetContent(s) # <<>> => Head(TargetContent(s)) # NL
           /\ (/\ s.pc = "read" \/ Exhausted(s)
               /\ \A k \in DOMAIN Flatten(s.chunks) :
                    Flatten(s.chunks)[k] \in {FragNLLine, FragALine})
                 => TargetContent(s)
                      = DropLeadingNewlines(FragmentsOf(Flatten(s.chunks)))

\* C24 witness: of the fragments "\n", "\n", "a" both "\n" were skipped: the content
\* is "a".
C24_Witness ==
    \E i \in DOMAIN sessions :
      /\ Exhausted(sessions[i])
      /\ sessions[i].fresh
      /\ Flatten(sessions[i].chunks) = <<FragNLLine, FragNLLine, FragALine>>
      /\ TargetContent(sessions[i]) = <<"a">>

\* C25: in a session whose textarea lookup found no element, a line whose fragment
\* is to be appended throws before the content is changed, the catch logs it and the
\* loop goes on; the content stays as it was when the turn was selected; the loop
\* is left only when a read returns the end of the stream or returns while the stop
\* flag is set; and nothing is thrown out of the handler by a line.
C25_NoTextareaNoAppend ==
    [][\A i \in DOMAIN sessions :
         LET s == sessions[i]
             t == sessions'[i]
         IN /\ (/\ s.pc = "lines" /\ s.textarea = "null" /\ s.li \in DOMAIN s.value
                /\ IsFragmentLine(s.value[s.li])
                /\ ~(messages[s.rIdx].content = <<>>
                       /\ FragmentOf(s.value[s.li]) = <<NL>>)
                /\ t # s)
                 => /\ t.pc = "lines"
                    /\ t.logged = s.logged + 1
                    /\ messages' = messages
            /\ (t.textarea = "null" /\ t.pc \in {"read", "lines", "returned"})
                 => messages'[t.rIdx].content = ContentWhenSelected(t)
            /\ (s.textarea = "null" /\ s.pc \in {"read", "lines"} /\ t.pc = "returned")
                 => /\ s.pc = "read"
                    /\ t.chunks = s.chunks \/ stopResponseFlag
            /\ (s.textarea = "null" /\ t.pc = "threw" /\ s.pc # "threw")
                 => s.pc = "read"]_vars

\* C25 witness: with no textarea element, a stream of two chunks with a fragment each
\* was read to its end; both appends were caught and logged and the content is empty.
C25_Witness ==
    \E i \in DOMAIN sessions :
      /\ Exhausted(sessions[i])
      /\ sessions[i].textarea = "null"
      /\ sessions[i].fresh
      /\ sessions[i].chunks = <<(<<FragALine>>), (<<FragALine>>)>>
      /\ sessions[i].reads = 3
      /\ sessions[i].logged = 2
      /\ TargetContent(sessions[i]) = <<>>

\* C22: a checkHealth call started by onMount comes after the loadConfigFromAPI call
\* of onMount, which has ended by then, so the two are never in flight together; and
\* when that load got the configuration, the body of the health request is made of
\* the values loaded.
C22_HealthAfterLoad ==
    \A h \in DOMAIN strandsCalls :
      (strandsCalls[h].fn = "checkHealth" /\ strandsCalls[h].by = "mount")
        => \E l \in 1..(h - 1) :
             /\ strandsCalls[l].fn = "loadConfigFromAPI"
             /\ strandsCalls[l].by = "mount"
             /\ strandsCalls[l].pc = "done"
             /\ strandsCalls[l].got = "ok"
                  => strandsCalls[h].body = HealthBody(ServerConfig)

\* C22 witness: the load of onMount got the configuration and has ended; the health
\* check of onMount is in flight with the loaded values in its body.
C22_Witness ==
    \E h \in DOMAIN strandsCalls :
      /\ strandsCalls[h].fn = "checkHealth"
      /\ strandsCalls[h].by = "mount"
      /\ strandsCalls[h].pc = "fetch"
      /\ strandsCalls[h].body = HealthBody(ServerConfig)
      /\ strandsCalls[1].fn = "loadConfigFromAPI"
      /\ strandsCalls[1].got = "ok"
      /\ config = ServerConfig
      /\ ~strandsLoading
      /\ healthLoading

C26_CustomersOfSelectedRegion ==
    (/\ selectedRegion # ""
     /\ \A i \in DOMAIN fetches : fetches[i].pc = "done")
      => \E i \in DOMAIN fetches :
           /\ fetches[i].region = selectedRegion
           /\ \A j \in DOMAIN fetches : j > i => fetches[j].region # selectedRegion
           /\ customers = fetches[i].returned

\* C27: loadingCustomers is true exactly while at least one customer fetch is in
\* flight.
C27_LoadingWhileInFlight ==
    loadingCustomers = (\E i \in DOMAIN fetches : fetches[i].pc = "fetch")

\* C28: a call of a wrapper resolves with the parsed body when the response is ok,
\* and throws when the response is not ok or the fetch fails, whatever the error
\* value is: it never resolves then.
C28_WrapperThrowsOnFailure ==
    apiResult # Pending
      => /\ (apiCall.outcome.ok /\ apiCall.outcome.parses)
              => apiResult = [how |-> "resolves", with |-> apiCall.outcome.value.is]
         /\ ~apiCall.outcome.ok => apiResult.how = "throws"

\* C30: saveHandler has been invoked by a call of updateHandler only if updateLogConfig
\* returned a truthy result and no load of the refresh is pending; a call whose update
\* threw has not invoked it and has shown the error notification, alone; and loading is
\* true exactly while a call of updateHandler is under way.
C30_SaveAfterUpdateAndRefresh ==
    /\ \A i \in DOMAIN logsCalls :
         LET c == logsCalls[i] IN
         /\ c.saved <= 1
         /\ c.saved = 1
              => /\ c.got = "truthy"
                 /\ c.info # "pending"
                 /\ c.files # "pending"
         /\ c.got = "throws"
              => /\ c.saved = 0
                 /\ c.pc = "done"
                 /\ c.notes = <<[type |-> "error",
                                 text |-> "Failed to update log settings"]>>
    /\ logsLoading = (\E i \in DOMAIN logsCalls : logsCalls[i].pc # "done")

\* C30 witness: the update returned a truthy result, both loads of the refresh have
\* ended, saveHandler was invoked once and loading is false again.
C30_Witness ==
    \E i \in DOMAIN logsCalls :
      /\ logsCalls[i].pc = "done"
      /\ logsCalls[i].got = "truthy"
      /\ logsCalls[i].info = "settled"
      /\ logsCalls[i].files = "settled"
      /\ logsCalls[i].saved = 1
      /\ ~logsLoading

====
